---- MODULE Spec2Model ----
(***************************************************************************)
(* Model of src/main.rs: the orchestrator (main), the bounded pool of      *)
(* spawned per-image pipelines (process_image) and the shared CSV writer.  *)
(*                                                                         *)
(* Paths are the naturals 1..nImages in discovery order.  A log row is a   *)
(* pair <<path, response text>>.  The csv::Writer is an in-memory buffer   *)
(* in front of the append-mode file: write_record puts the row in the      *)
(* buffer, flush moves the buffer to the file and clears it only when the  *)
(* write succeeded; the Writer flushes once more when it is dropped.       *)
(***************************************************************************)
EXTENDS Naturals, Sequences, FiniteSets

\* ------------------------------------------------------------------ bounds
MaxPaths == 3          \* images under IMAGES in the general specification
PoolPaths == 11        \* images in the pool specification (more than the cap)
RunPaths == 2          \* images in the two-run specification
MaxRuns == 2           \* process runs in the two-run specification
MaxEntries == 2        \* directory entries in the discovery specification

\* --------------------------------------------------------------- constants
BufferLimit == 10      \* .buffer_unordered(10)

Fates == {"unreadable", "refused", "badjson", "up"}
JsonValues == {"received"}
Partial == "partial"   \* response column of a row cut short by a failed write

\* File names are tuples of characters; "~" stands for a byte sequence that
\* is not valid UTF-8.
ImagesDir == <<"I", "M", "A", "G", "E", "S">>
PlainImage == <<"a", ".", "j", "p", "g">>
Names ==
  { PlainImage,
    <<"a", ".", "J", "P", "G">>,
    <<"a", ".", "J", "p", "e", "g">>,
    <<"a", ".", "p", "n", "g">>,
    <<"a", ".", "G", "i", "f">>,
    <<"a", ".", "b", "m", "p">>,
    <<"a", ".", "t", "x", "t">>,
    <<"a", ".", "j", "p", "g", ".", "t", "x", "t">>,
    <<"a", ".", "t", "x", "t", ".", "P", "n", "G">>,
    <<"a", ".", "j", "p", "~", "g">>,
    <<"a", ".", "j", "p">>,
    <<"a", ".">>,
    <<"a", "j", "p", "g">>,
    <<".", "j", "p", "g">>,
    <<"j", "p", "g">> }
Kinds == {"file", "dir", "err"}

VARIABLES
  openable,     \* environment: api_responses.csv can be opened or created
  rootReadable, \* environment: the directory IMAGES can be read
  entries,      \* environment: what lies under IMAGES, in traversal order
  nImages,      \* environment: number of entries under IMAGES
  fate,         \* environment: per path, what encode / the endpoint will do
  run,          \* which run of the program this is (1-based)
  pc,           \* main: "start", "discover", "run", "done", "fatal"
  image_paths,  \* main: the collected Vec<PathBuf>
  found,        \* the "Found {} images" line: <<>> or <<count>>
  next,         \* index of the next path the stream will yield
  inFlight,     \* the JoinHandles held by buffer_unordered
  st,           \* per path: position of its spawned task
  response,     \* per path: the value send_to_api returned
  report,       \* per path: the line its task printed
  holder,       \* owner of the csv_writer mutex, 0 when free
  buf,          \* rows in the csv::Writer buffer
  file,         \* rows in api_responses.csv
  existing      \* the rows api_responses.csv held when this run started

vars == <<openable, rootReadable, entries, nImages, fate, run, pc, image_paths, found, next, inFlight, st,
          response, report, holder, buf, file, existing>>

env == <<openable, rootReadable, entries, nImages, fate>>

Paths == 1..nImages

NoTask == [p \in Paths |-> "idle"]
NoResponse == [p \in Paths |-> "none"]
NoReport == [p \in Paths |-> "none"]

\* The state of a freshly started process over a log holding `rows`.
Boot(rows) ==
  /\ pc = "start"
  /\ image_paths = <<>>
  /\ found = <<>>
  /\ next = 1
  /\ inFlight = {}
  /\ st = NoTask
  /\ response = NoResponse
  /\ report = NoReport
  /\ holder = 0
  /\ buf = <<>>
  /\ file = rows
  /\ existing = rows

\* A readable IMAGES directory that holds image files only.
PlainTree ==
  /\ rootReadable = TRUE
  /\ entries = [i \in 1..nImages |-> [name |-> PlainImage, kind |-> "file"]]

Init ==
  /\ openable \in BOOLEAN
  /\ nImages \in 0..MaxPaths
  /\ PlainTree
  /\ fate \in [1..nImages -> Fates]
  /\ run = 1
  /\ \E rows \in {<<>>, << <<1, "received">> >>} : Boot(rows)

\* ---------------------------------------------------------------- main
\* Variant: the file is opened without .append(true) and its rows are lost.
create_csv_writer_truncate ==
  /\ pc = "start"
  /\ pc' = IF openable THEN "discover" ELSE "fatal"
  /\ file' = <<>>
  /\ UNCHANGED <<env, run, image_paths, found, next, inFlight, st, response,
                 report, holder, buf, existing>>

\* Variant: the error of the open is not propagated.
create_csv_writer_unchecked ==
  /\ pc = "start"
  /\ pc' = "discover"
  /\ file' = file
  /\ UNCHANGED <<env, run, image_paths, found, next, inFlight, st, response,
                 report, holder, buf, existing>>

\* create_csv_writer(csv_path)?  : open or create the file in append mode;
\* the rows already in it stay.  A failure is returned from main.
create_csv_writer ==
  /\ pc = "start"
  /\ pc' = IF openable THEN "discover" ELSE "fatal"
  /\ file' = file
  /\ UNCHANGED <<env, run, image_paths, found, next, inFlight, st, response,
                 report, holder, buf, existing>>

\* ------------------------------------------------------------ is_image
\* Path::extension(): the part of the file name after its last ".", none
\* when there is no "." or nothing stands before the last one.  An Option is
\* the empty set or a singleton.
Dots(name) == {i \in DOMAIN name : name[i] = "."}
LastDot(name) == CHOOSE i \in Dots(name) : \A j \in Dots(name) : j <= i

extension(name) ==
  IF Dots(name) = {} \/ LastDot(name) = 1
    THEN {}
    ELSE {SubSeq(name, LastDot(name) + 1, Len(name))}

\* OsStr::to_str(): none when the bytes are not valid UTF-8.
to_str(ext) == IF \E i \in DOMAIN ext : ext[i] = "~" THEN {} ELSE {ext}

Upper == <<"A", "B", "E", "F", "G", "I", "J", "M", "N", "P", "S", "T", "X">>
Lower == <<"a", "b", "e", "f", "g", "i", "j", "m", "n", "p", "s", "t", "x">>
LowerChar(c) ==
  IF \E k \in DOMAIN Upper : Upper[k] = c
    THEN Lower[CHOOSE k \in DOMAIN Upper : Upper[k] = c]
    ELSE c
to_lowercase(ext) == [i \in DOMAIN ext |-> LowerChar(ext[i])]

extensions ==
  { <<"j", "p", "g">>, <<"j", "p", "e", "g">>, <<"p", "n", "g">>,
    <<"g", "i", "f">>, <<"b", "m", "p">> }

\* Variant: the extension is compared as it is written.
is_image_case_sensitive(name) ==
  \E raw \in extension(name) : \E ext \in to_str(raw) : ext \in extensions

is_image(name) ==
  \E raw \in extension(name) : \E ext \in to_str(raw) :
    to_lowercase(ext) \in extensions

\* WalkDir::new("IMAGES").into_iter(): the root itself, then what lies under
\* it; an error item where something cannot be read.  Entry i has path i.
WalkDir ==
  IF rootReadable
    THEN <<[id |-> 0, name |-> ImagesDir, kind |-> "dir"]>> \o
         [i \in 1..Len(entries) |->
            [id |-> i, name |-> entries[i].name, kind |-> entries[i].kind]]
    ELSE <<[id |-> 0, name |-> ImagesDir, kind |-> "err"]>>

\* .filter_map(|e| e.ok()).filter(|e| e.path().is_file() && is_image(e.path()))
Keep(e) == e.kind # "err" /\ e.kind = "file" /\ is_image(e.name)

\* Variant: the count printed is that of the entries walked.
DiscoverCountsWalked ==
  /\ pc = "discover"
  /\ LET kept == SelectSeq(WalkDir, Keep) IN
       image_paths' = [i \in 1..Len(kept) |-> kept[i].id]
  /\ found' = <<Len(WalkDir)>>
  /\ pc' = "run"
  /\ UNCHANGED <<env, run, next, inFlight, st, response, report, holder,
                 buf, file, existing>>

\* WalkDir ... collect(), then println!("Found {} images").
Discover ==
  /\ pc = "discover"
  /\ LET kept == SelectSeq(WalkDir, Keep) IN
       image_paths' = [i \in 1..Len(kept) |-> kept[i].id]
  /\ found' = <<Len(image_paths')>>
  /\ pc' = "run"
  /\ UNCHANGED <<env, run, next, inFlight, st, response, report, holder,
                 buf, file, existing>>

\* buffer_unordered pulls the next path while fewer than 10 handles are held;
\* the map closure spawns its task.
\* Variant: the cap is compared with <= instead of <.
AdmitGuardOffByOne == Cardinality(inFlight) <= BufferLimit

AdmitGuard == Cardinality(inFlight) < BufferLimit

\* Variant: the stream yields the paths from the back.
AdmitFromTheBack ==
  /\ pc = "run"
  /\ next <= Len(image_paths)
  /\ AdmitGuard
  /\ LET p == image_paths[Len(image_paths) + 1 - next] IN
       /\ st' = [st EXCEPT ![p] = "encode"]
       /\ inFlight' = inFlight \cup {p}
  /\ next' = next + 1
  /\ UNCHANGED <<env, run, pc, image_paths, found, response, report, holder,
                 buf, file, existing>>

Admit ==
  /\ pc = "run"
  /\ next <= Len(image_paths)
  /\ AdmitGuard
  /\ LET p == image_paths[next] IN
       /\ st' = [st EXCEPT ![p] = "encode"]
       /\ inFlight' = inFlight \cup {p}
  /\ next' = next + 1
  /\ UNCHANGED <<env, run, pc, image_paths, found, response, report, holder,
                 buf, file, existing>>

\* buffer_unordered fills its free slots before it polls the held handles.
Observe(p) ==
  /\ pc = "run"
  /\ p \in inFlight
  /\ st[p] = "done"
  /\ (next > Len(image_paths) \/ ~AdmitGuard)
  /\ inFlight' = inFlight \ {p}
  /\ UNCHANGED <<env, run, pc, image_paths, found, next, st, response, report,
                 holder, buf, file, existing>>

\* The stream is exhausted and no handle is left: for_each ends, main returns
\* Ok(()) and the last Arc drops the Writer, which tries one more flush.
\* Variant: main does not wait for the handles still held.
MainReturnGuardNoJoin == next > Len(image_paths)

MainReturnGuard == next > Len(image_paths) /\ inFlight = {}

\* Variant: main returns the error of a failed pipeline.
MainReturnPropagates ==
  /\ pc = "run"
  /\ MainReturnGuard
  /\ pc' = IF \E p \in Paths : report[p] \notin {"none", "ok"}
             THEN "fatal" ELSE "done"
  /\ \E flushed \in BOOLEAN :
       IF flushed /\ buf # <<>>
         THEN file' = file \o buf /\ buf' = <<>>
         ELSE UNCHANGED <<buf, file>>
  /\ UNCHANGED <<env, run, image_paths, found, next, inFlight, st, response,
                 report, holder, existing>>

MainReturn ==
  /\ pc = "run"
  /\ MainReturnGuard
  /\ pc' = "done"
  /\ \E flushed \in BOOLEAN :
       IF flushed /\ buf # <<>>
         THEN file' = file \o buf /\ buf' = <<>>
         ELSE UNCHANGED <<buf, file>>
  /\ UNCHANGED <<env, run, image_paths, found, next, inFlight, st, response,
                 report, holder, existing>>

\* ------------------------------------------------------- process_image
\* The task ends: process_image returned Err(e) and the task printed it.
\* The MutexGuard, when held, is dropped on the way out.
\* Variant: the guard is not dropped on the error path.
FailedKeepsLock(p, category) ==
  /\ st' = [st EXCEPT ![p] = "done"]
  /\ report' = [report EXCEPT ![p] = category]
  /\ holder' = holder

Failed(p, category) ==
  /\ st' = [st EXCEPT ![p] = "done"]
  /\ report' = [report EXCEPT ![p] = category]
  /\ holder' = IF holder = p THEN 0 ELSE holder

\* spawn_blocking(encode_image).await??
Encode(p) ==
  /\ st[p] = "encode"
  /\ IF fate[p] = "unreadable"
       THEN Failed(p, "io")
       ELSE st' = [st EXCEPT ![p] = "api"] /\ UNCHANGED <<report, holder>>
  /\ UNCHANGED <<env, run, pc, image_paths, found, next, inFlight, response,
                 buf, file, existing>>

\* Variant: the result of the request is not checked.
SendToApiIgnoresError(p) ==
  /\ st[p] = "api"
  /\ \E v \in JsonValues : response' = [response EXCEPT ![p] = v]
  /\ st' = [st EXCEPT ![p] = "lock"]
  /\ UNCHANGED <<report, holder>>
  /\ UNCHANGED <<env, run, pc, image_paths, found, next, inFlight, buf, file,
                 existing>>

\* Variant: a failed request sends the pipeline back to its start.
SendToApiRetries(p) ==
  /\ st[p] = "api"
  /\ \/ /\ fate[p] \in {"refused", "badjson"}
        /\ st' = [st EXCEPT ![p] = "encode"]
        /\ UNCHANGED <<response, report, holder>>
     \/ /\ fate[p] = "up"
        /\ \E v \in JsonValues : response' = [response EXCEPT ![p] = v]
        /\ st' = [st EXCEPT ![p] = "lock"]
        /\ UNCHANGED <<report, holder>>
  /\ UNCHANGED <<env, run, pc, image_paths, found, next, inFlight, buf, file,
                 existing>>

\* send_to_api(&image_base64).await?
SendToApi(p) ==
  /\ st[p] = "api"
  /\ \/ /\ fate[p] = "refused"
        /\ Failed(p, "net")
        /\ UNCHANGED response
     \/ /\ fate[p] = "badjson"
        /\ Failed(p, "parse")
        /\ UNCHANGED response
     \/ /\ fate[p] = "up"
        /\ \E v \in JsonValues : response' = [response EXCEPT ![p] = v]
        /\ st' = [st EXCEPT ![p] = "lock"]
        /\ UNCHANGED <<report, holder>>
  /\ UNCHANGED <<env, run, pc, image_paths, found, next, inFlight, buf, file,
                 existing>>

\* csv_writer.lock().await
\* Variant: lock() never waits.
LockGuardNone == TRUE

LockGuard == holder = 0

Lock(p) ==
  /\ st[p] = "lock"
  /\ LockGuard
  /\ holder' = p
  /\ st' = [st EXCEPT ![p] = "write"]
  /\ UNCHANGED <<env, run, pc, image_paths, found, next, inFlight, response,
                 report, buf, file, existing>>

\* writer.write_record(&[path_str, response.to_string()])?
WriteRecord(p) ==
  /\ st[p] = "write"
  /\ \/ /\ buf' = Append(buf, <<p, response[p]>>)
        /\ st' = [st EXCEPT ![p] = "flush"]
        /\ UNCHANGED <<report, holder>>
     \/ /\ buf' = Append(buf, <<p, Partial>>)
        /\ Failed(p, "write")
  /\ UNCHANGED <<env, run, pc, image_paths, found, next, inFlight, response,
                 file, existing>>

\* Variant: a successful flush leaves the buffer as it was.
FlushKeepsBuffer(p) ==
  /\ st[p] = "flush"
  /\ \/ /\ file' = file \o buf
        /\ buf' = buf
        /\ st' = [st EXCEPT ![p] = "done"]
        /\ report' = [report EXCEPT ![p] = "ok"]
        /\ holder' = 0
     \/ /\ Failed(p, "write")
        /\ UNCHANGED <<buf, file>>
  /\ UNCHANGED <<env, run, pc, image_paths, found, next, inFlight, response,
                 existing>>

\* Variant: the row is reported as logged without being flushed.
FlushSkipped(p) ==
  /\ st[p] = "flush"
  /\ \/ /\ UNCHANGED <<buf, file>>
        /\ st' = [st EXCEPT ![p] = "done"]
        /\ report' = [report EXCEPT ![p] = "ok"]
        /\ holder' = 0
     \/ /\ Failed(p, "write")
        /\ UNCHANGED <<buf, file>>
  /\ UNCHANGED <<env, run, pc, image_paths, found, next, inFlight, response,
                 existing>>

\* Variant: the guard outlives a successful write.
FlushKeepsLock(p) ==
  /\ st[p] = "flush"
  /\ \/ /\ file' = file \o buf
        /\ buf' = <<>>
        /\ st' = [st EXCEPT ![p] = "done"]
        /\ report' = [report EXCEPT ![p] = "ok"]
        /\ holder' = holder
     \/ /\ Failed(p, "write")
        /\ UNCHANGED <<buf, file>>
  /\ UNCHANGED <<env, run, pc, image_paths, found, next, inFlight, response,
                 existing>>

\* writer.flush()? ; Ok(()) ; println!("Successfully processed ...")
Flush(p) ==
  /\ st[p] = "flush"
  /\ \/ /\ file' = file \o buf
        /\ buf' = <<>>
        /\ st' = [st EXCEPT ![p] = "done"]
        /\ report' = [report EXCEPT ![p] = "ok"]
        /\ holder' = 0
     \/ /\ Failed(p, "write")
        /\ UNCHANGED <<buf, file>>
  /\ UNCHANGED <<env, run, pc, image_paths, found, next, inFlight, response,
                 existing>>

process_image(p) ==
  \/ Encode(p)
  \/ SendToApi(p)
  \/ Lock(p)
  \/ WriteRecord(p)
  \/ Flush(p)

main ==
  \/ create_csv_writer
  \/ Discover
  \/ Admit
  \/ \E p \in Paths : Observe(p)
  \/ MainReturn

Next ==
  \/ create_csv_writer
  \/ Discover
  \/ Admit
  \/ \E p \in Paths : Observe(p)
  \/ MainReturn
  \/ \E p \in Paths : Encode(p)
  \/ \E p \in Paths : SendToApi(p)
  \/ \E p \in Paths : Lock(p)
  \/ \E p \in Paths : WriteRecord(p)
  \/ \E p \in Paths : Flush(p)

Spec == Init /\ [][Next]_vars

\* The runtime keeps polling every task that can make progress, main
\* included; the mutex hands the lock to a waiter once it is free.
Pipeline(p) == p \in Paths /\ process_image(p)

Fairness ==
  /\ WF_vars(main)
  /\ \A p \in 1..MaxPaths : WF_vars(Pipeline(p))

FairSpec == Init /\ [][Next]_vars /\ Fairness

\* ------------------------------------------------- the pool past its cap
\* More images than the cap; the first is read and served, the others cannot
\* be read.
InitPool ==
  /\ openable = TRUE
  /\ nImages = PoolPaths
  /\ PlainTree
  /\ fate = [p \in 1..nImages |-> IF p = 1 THEN "up" ELSE "unreadable"]
  /\ run = 1
  /\ Boot(<<>>)

SpecPool == InitPool /\ [][Next]_vars

\* The same pool when none of the files can be read: every task ends at its
\* encode step, so these are all the steps there are.
InitPoolIo ==
  /\ openable = TRUE
  /\ nImages = PoolPaths
  /\ PlainTree
  /\ fate = [p \in 1..nImages |-> "unreadable"]
  /\ run = 1
  /\ Boot(<<>>)

NextPoolIo ==
  \/ create_csv_writer
  \/ Discover
  \/ Admit
  \/ \E p \in Paths : Observe(p)
  \/ MainReturn
  \/ \E p \in Paths : Encode(p)

\* main is polled while it can make progress, and so are the spawned tasks:
\* a task at its encode step stays there until it takes it.
FairnessPoolIo ==
  /\ WF_vars(main)
  /\ WF_vars(\E p \in Paths : Encode(p))

FairPoolIo == InitPoolIo /\ [][NextPoolIo]_vars /\ FairnessPoolIo

\* ---------------------------------------------------- the program run twice
\* The process has exited; the program is started again in the same
\* directory, over the log the earlier run left.
Restart ==
  /\ pc \in {"done", "fatal"}
  /\ run < MaxRuns
  /\ run' = run + 1
  /\ pc' = "start"
  /\ image_paths' = <<>>
  /\ found' = <<>>
  /\ next' = 1
  /\ inFlight' = {}
  /\ st' = NoTask
  /\ response' = NoResponse
  /\ report' = NoReport
  /\ holder' = 0
  /\ buf' = <<>>
  /\ existing' = file
  /\ UNCHANGED <<env, file>>

InitRuns ==
  /\ openable = TRUE
  /\ nImages = RunPaths
  /\ PlainTree
  /\ fate \in [1..nImages -> Fates]
  /\ run = 1
  /\ Boot(<<>>)

NextRuns == Next \/ Restart

SpecRuns == InitRuns /\ [][NextRuns]_vars

\* ------------------------------------------------ setup and discovery only
\* Any small directory listing; the steps are those up to the end of
\* discovery, and the return of a run that has nothing to process.
InitWalk ==
  /\ openable = TRUE
  /\ rootReadable \in BOOLEAN
  /\ nImages \in 0..MaxEntries
  /\ entries \in [1..nImages -> [name : Names, kind : Kinds]]
  /\ fate = [p \in 1..nImages |-> "up"]
  /\ run = 1
  /\ Boot(<<>>)

NextWalk ==
  \/ create_csv_writer
  \/ Discover
  \/ MainReturn

SpecWalk == InitWalk /\ [][NextWalk]_vars

\* ================================================================ claims
Spawned == {p \in Paths : st[p] # "idle"}
Running == {p \in Paths : st[p] \notin {"idle", "done"}}
Outstanding == {p \in Paths : st[p] = "api"}
Writing == {p \in Paths : st[p] \in {"write", "flush"}}
Logged(p) == report[p] = "ok"
HasFailed(p) == report[p] \in {"io", "net", "parse", "write"}
Terminal(p) == Logged(p) \/ HasFailed(p)

\* The rows this run added to the log, and the paths with a whole row there.
RunRows == SubSeq(file, Len(existing) + 1, Len(file))
RowPaths(rows) == {rows[i][1] : i \in {j \in DOMAIN rows : rows[j][2] # Partial}}
HasRow(p) == p \in RowPaths(RunRows)

\* C1: at most 10 pipelines are in flight (spawned and not yet seen finished
\* by the orchestrator), hence at most 10 tasks run and at most 10 API
\* requests are outstanding at once.
C1_AtMostTenInFlight ==
  /\ Cardinality(inFlight) <= 10
  /\ Spawned \ inFlight \subseteq {p \in Paths : st[p] = "done"}
  /\ Cardinality(Running) <= 10
  /\ Cardinality(Outstanding) <= 10

\* The pool is full and a discovered path is waiting for a slot.
C1_Witness ==
  /\ Cardinality(inFlight) = 10
  /\ Cardinality(Running) = 10
  /\ next <= Len(image_paths)

\* C2: at most one pipeline is between acquiring the writer lock and the end
\* of its write_record + flush, and that pipeline is the holder of the lock.
C2_OneWriter ==
  /\ Cardinality(Writing) <= 1
  /\ \A p \in Paths : p \in Writing <=> holder = p

\* One pipeline has written its record and not flushed while another waits.
C2_Witness ==
  \E p, q \in Paths : st[p] = "flush" /\ st[q] = "lock"

\* C3: when the run has completed, every discovered path has exactly one of
\* a row in the log and an error report: never both, never neither.
C3_ExactlyOneOutcome ==
  pc = "done" =>
    \A i \in DOMAIN image_paths :
      LET p == image_paths[i] IN
        /\ HasRow(p) \/ HasFailed(p)
        /\ ~(HasRow(p) /\ HasFailed(p))

\* C4: once setup has succeeded, the run finishes: main returns and every
\* discovered path has reached Logged or Failed.
C4_RunAlwaysFinishes ==
  (pc = "discover") ~> (pc = "done" /\ \A p \in Paths : Terminal(p))

\* A run has finished in which one pipeline's write failed and a later
\* pipeline was logged.
C4_Witness ==
  /\ pc = "done"
  /\ \E p, q \in Paths : report[p] = "write" /\ Logged(q) /\ p # q

\* C5: main has returned Ok only in states where every discovered path has
\* reached Logged or Failed.
C5_ReturnsOnlyWhenAllTerminal ==
  pc = "done" =>
    /\ Len(image_paths) = nImages
    /\ \A i \in DOMAIN image_paths :
         Terminal(image_paths[i]) /\ st[image_paths[i]] = "done"

\* main has returned after a run in which a path failed and a later one was
\* logged.
C5_Witness ==
  /\ pc = "done"
  /\ \E p, q \in Paths : p < q /\ HasFailed(p) /\ Logged(q)

C7_OneRowPerPath ==
  (pc = "done" /\ \A p \in Paths : Logged(p)) =>
    /\ Len(RunRows) = Len(image_paths)
    /\ \A i \in DOMAIN image_paths :
         Cardinality({j \in DOMAIN RunRows :
                        RunRows[j] = <<image_paths[i], response[image_paths[i]]>>}) = 1

\* A finished run of at least two images, all logged, over a log that already
\* held a row for the first image.
C7_Witness ==
  /\ pc = "done"
  /\ nImages >= 2
  /\ \A p \in Paths : Logged(p)
  /\ existing # <<>>

\* C8: the log is append-only: every step leaves the rows already in the file
\* in place, also the start of a second run over the log of the first, so
\* the log a run started with stays a prefix of the log.
C8_AppendOnly ==
  [][/\ Len(file) <= Len(file')
     /\ SubSeq(file', 1, Len(file)) = file
     /\ Len(existing') <= Len(file')
     /\ SubSeq(file', 1, Len(existing')) = existing']_vars

\* The second run has finished and added rows after those of the first.
C8_Witness ==
  /\ run = 2
  /\ pc = "done"
  /\ existing # <<>>
  /\ Len(file) > Len(existing)
  /\ \E p \in Paths : HasRow(p) /\ p \in RowPaths(existing)

\* C9: when the CSV file cannot be opened or created, nothing is processed:
\* no discovery, no pipeline, no request, no per-image line, no row.
C9_SetupFailureAborts ==
  ~openable =>
    /\ pc \in {"start", "fatal"}
    /\ image_paths = <<>>
    /\ found = <<>>
    /\ Spawned = {}
    /\ inFlight = {}
    /\ \A p \in Paths : report[p] = "none"
    /\ file = existing

\* The run has aborted although images were there to process.
C9_Witness ==
  /\ pc = "fatal"
  /\ nImages >= 2

\* C10: once the CSV file has been opened the process never ends with the
\* fatal error, and it ends with Ok whatever the pipelines' outcomes were.
C10_OnlySetupIsFatal ==
  /\ [](openable => pc # "fatal")
  /\ (pc = "run") ~> (pc = "done")

\* main has returned Ok after every pipeline failed, for three different
\* reasons.
C10_Witness ==
  /\ pc = "done"
  /\ \A p \in Paths : HasFailed(p)
  /\ Cardinality({report[p] : p \in Paths}) >= 3
  /\ \E p \in Paths : report[p] = "write"

\* C11: when the directory IMAGES cannot be read at all, the process does not
\* complete as a run over zero images; it ends with a fatal error.
C11_UnreadableRootIsFatal ==
  ~rootReadable => pc # "done"

\* C12: whenever a pipeline has reached Logged and printed its success line,
\* its row is in the file (not only in the writer's buffer).
C12_LoggedMeansFlushed ==
  \A p \in Paths :
    Logged(p) => \E i \in DOMAIN RunRows : RunRows[i] = <<p, response[p]>>

\* A pipeline is logged while the run goes on and another is still at work.
C12_Witness ==
  /\ pc = "run"
  /\ \E p, q \in Paths : Logged(p) /\ st[q] \in {"encode", "api", "lock"}

\* C13: over a readable tree, discovery returns exactly the regular files
\* whose name is a non-empty stem, a ".", and one of jpg, jpeg, png, gif, bmp
\* in any letter case: no other file, no directory, each matching file once.
RecognizedExtensions ==
  { <<"j", "p", "g">>, <<"j", "p", "e", "g">>, <<"p", "n", "g">>,
    <<"g", "i", "f">>, <<"b", "m", "p">> }
SameLetter(c, d) ==
  c = d \/ \E k \in DOMAIN Upper :
             {c, d} = {Upper[k], Lower[k]}
EndsWithExtension(name, x) ==
  LET n == Len(name)
      k == Len(x)
  IN  /\ n > k + 1
      /\ name[n - k] = "."
      /\ \A i \in 1..k : SameLetter(name[n - k + i], x[i])
Matching(e) ==
  e.kind = "file" /\ \E x \in RecognizedExtensions : EndsWithExtension(e.name, x)

C13_DiscoveryReturnsTheImages ==
  (rootReadable /\ pc \in {"run", "done"}) =>
    /\ {image_paths[i] : i \in DOMAIN image_paths}
         = {j \in DOMAIN entries : Matching(entries[j])}
    /\ \A i, j \in DOMAIN image_paths : i < j => image_paths[i] < image_paths[j]
    /\ found = <<Cardinality({j \in DOMAIN entries : Matching(entries[j])})>>

\* A directory named a.jpg is left out and the file a.JPG after it is found.
C13_Witness ==
  /\ rootReadable
  /\ pc = "run"
  /\ Len(entries) = 2
  /\ entries[1] = [name |-> PlainImage, kind |-> "dir"]
  /\ entries[2] = [name |-> <<"a", ".", "J", "P", "G">>, kind |-> "file"]
  /\ image_paths = <<2>>

\* C14: the lock is released on every way out of the write section, and the
\* pipelines waiting for the lock all get it (the only way on from lock() is
\* to the pipeline's own write_record).
C14_LockAlwaysReleased ==
  /\ [][\A p \in Paths :
          (st[p] \in {"write", "flush"} /\ st'[p] = "done") => holder' = 0]_vars
  /\ (\E q \in Paths : st[q] = "lock") ~> (\A q \in Paths : st[q] # "lock")

\* One pipeline's write has failed and a later one holds the lock with its
\* own record written.
C14_Witness ==
  \E p, q \in Paths : report[p] = "write" /\ holder = q /\ st[q] = "flush"

\* C15: the row of a pipeline that failed with a log-write error never
\* appears in the log.
C15_FailedRowIsLost ==
  \A p \in Paths : report[p] = "write" => ~HasRow(p)

\* C16: a path only moves forward through idle/encode (Discovered), api
\* (Encoded), lock/write/flush (Responded) to Logged, or to Failed from encode,
\* api, write or flush; a terminal path stays as it is; a path has at most one
\* record in the writer and the log; a path that failed at encode or at the
\* API call has no response, no record and not the lock.
Forward ==
  { <<"idle", "encode">>, <<"encode", "api">>, <<"api", "lock">>,
    <<"lock", "write">>, <<"write", "flush">>, <<"flush", "done">>,
    <<"encode", "done">>, <<"api", "done">>, <<"write", "done">> }
LogOrder == RunRows \o buf

C16_ForwardOnly ==
  [][\A p \in Paths :
       /\ st'[p] # st[p] => <<st[p], st'[p]>> \in Forward
       /\ Terminal(p) => (report'[p] = report[p] /\ st'[p] = "done")
       /\ (st'[p] = "done") <=> (report'[p] # "none")
       /\ Cardinality({i \in DOMAIN LogOrder' : LogOrder'[i][1] = p}) <= 1
       /\ report'[p] \in {"io", "net", "parse"} =>
            /\ response'[p] = "none"
            /\ \A i \in DOMAIN LogOrder' : LogOrder'[i][1] # p
            /\ holder' # p
       /\ (report'[p] = "io") <=> (st'[p] = "done" /\ fate[p] = "unreadable")
    ]_vars

\* A finished run with a path failed at encode, one failed at the API call
\* and one logged.
C16_Witness ==
  /\ pc = "done"
  /\ \E p, q, r \in Paths :
       report[p] = "io" /\ report[q] = "net" /\ Logged(r)

\* C17: the lock is held only by a pipeline between lock() and the end of
\* its write and flush: never by one that encodes, waits for the endpoint or
\* has finished; when no pipeline is in that section the lock is free.
C17_LockOnlyAroundWrite ==
  /\ \A p \in Paths :
       st[p] \in {"idle", "encode", "api", "lock", "done"} => holder # p
  /\ (\A p \in Paths : st[p] \notin {"write", "flush"}) => holder = 0

\* A later path is logged while the request of an earlier one is outstanding.
C17_Witness ==
  \E p, q \in Paths : p < q /\ st[p] = "api" /\ Logged(q) /\ holder = 0

C19_AdmitsInDiscoveryOrder ==
  /\ [](Spawned = {image_paths[i] : i \in 1..(next - 1)})
  /\ [][\A p \in inFlight : p \notin inFlight' => st[p] = "done"]_vars
  /\ (pc = "run") ~> (Spawned = {image_paths[i] : i \in DOMAIN image_paths})

\* The pool is full, the first task has finished, the eleventh path waits.
C19_Witness ==
  /\ Cardinality(inFlight) = 10
  /\ next = 11
  /\ next <= Len(image_paths)
  /\ st[1] = "done"

\* C20: discovery happens once; its count is printed before any pipeline
\* starts or prints; the paths are fixed from then on; at the end of the run
\* there are as many outcome lines as the count printed.
C20_DiscoveryOnceAndFirst ==
  [][/\ found # <<>> => (found' = found /\ image_paths' = image_paths)
     /\ found' = <<>> =>
          \A p \in Paths : st'[p] = "idle" /\ report'[p] = "none"
     /\ found' # <<>> => found' = <<Len(image_paths')>>
     /\ pc' = "done" =>
          found' = <<Cardinality({p \in Paths : report'[p] # "none"})>>
    ]_vars

\* A finished run of three images, some logged and some failed.
C20_Witness ==
  /\ pc = "done"
  /\ found = <<3>>
  /\ \E p, q \in Paths : Logged(p) /\ HasFailed(q)

====
